---- MODULE Spec2Model ----
(***************************************************************************)
(* Model of the leecoste-lms-backend server (src/server.js): the signed    *)
(* access/refresh token lifecycle, the cookie contract of login, refresh   *)
(* and logout, the protected dashboard route, and the register, login and  *)
(* delete handlers with their awaits as separate steps.                    *)
(*                                                                         *)
(* Time is the clock of jsonwebtoken, in whole seconds.  A token is the    *)
(* record of its claims together with a signature, the MAC of the claims   *)
(* under the signing secret.                                               *)
(*                                                                         *)
(* Spec is the whole server.  The properties are checked under smaller     *)
(* specifications built from the same actions: SpecSession (the sessions   *)
(* of registered users, with the clock), SpecStore (registrations and      *)
(* deletions interleaved at their awaits), SpecSerial (every handler, one  *)
(* request at a time), SpecConcurrent (the requests of different           *)
(* identities interleaved), SpecStats (the pagination of GET /api/stats)   *)
(* and SpecBoot (the process from its start, in every environment).        *)
(***************************************************************************)
EXTENDS Integers, Sequences, FiniteSets, Bags, TLC

----------------------------------------------------------------------------
(* Bounds of the model *)

\* how many times the clock advances in a behaviour
MaxTicks == 4
\* how many requests can be suspended at an await at the same time
MaxReqs == 2
\* how many principals listUsers returns in a page at most (1000 in the
\* program), and how many principals the directory of GET /api/stats holds
PageSize == 2
MaxPrincipals == 4

Emails == {"a@x.com", "b@x.com"}
Passwords == {"pw1", "pw2"}
Salts == {"s1", "s2"}

----------------------------------------------------------------------------
VARIABLES
  now,        \* the clock, in seconds
  ticks,      \* how many times the clock advanced
  users,      \* the "users" collection: a set of documents with their ids
  authDir,    \* the Firebase Auth directory: a set of principals
  inflight,   \* the bag of requests suspended at an await
  jar,        \* the browser's cookie jar: the refreshToken cookie or NoCookie
  kept,       \* the token a client kept a copy of, or NoToken
  phase,      \* the browser's session: NoSession, Authenticated or LoggedOut
  resp,       \* the last response sent, with the request it answers
  env,        \* process.env: the names of the variables that are set
  proc        \* the server process: loading, loaded, listening or exited

vars == <<now, ticks, users, authDir, inflight, jar, kept, phase, resp, env, proc>>

----------------------------------------------------------------------------
(* Program constants *)

\* the environment variables the program reads
EnvNames == {"FIREBASE_SERVICE_ACCOUNT", "JWT_SECRET"}

\* the value of an environment variable that is not set
Undefined == "undefined"

\* process.env.JWT_SECRET, and a secret that is not the server's
JWT_SECRET == IF "JWT_SECRET" \in env THEN "jwt-secret" ELSE Undefined
OtherSecret == "other-secret"

\* expiresIn: "15m" and "7d", in seconds
AccessTTL == 15 * 60
RefreshTTL == 7 * 24 * 60 * 60
\* maxAge of the refreshToken cookie, in milliseconds
CookieMaxAge == 7 * 24 * 60 * 60 * 1000

\* the steps by which the clock advances, in turn: from the issue of a token
\* they reach the second before and the second of each of the two expiries
TickSteps == <<AccessTTL - 1, 1, RefreshTTL - AccessTTL - 1, 1>>

----------------------------------------------------------------------------
(* jsonwebtoken *)

\* the signature of a token's claims under a secret
MAC(email, iat, exp, secret) == <<email, iat, exp, secret>>

\* what stands for the token when jwt.sign throws
Thrown == [fmt |-> "throw", email |-> "", iat |-> 0, exp |-> 0, sig |-> <<>>]

\* jwt.sign(payload, secret, {expiresIn}) at clock time t; it throws
\* "secretOrPrivateKey must have a value" without a secret
Sign(email, secret, ttl, t) ==
  IF secret = Undefined
    THEN Thrown
  ELSE [fmt |-> "jwt", email |-> email, iat |-> t, exp |-> t + ttl,
        sig |-> MAC(email, t, t + ttl, secret)]

\* an absent token (no cookie, no authorization header)
NoToken == [fmt |-> "none", email |-> "", iat |-> 0, exp |-> 0, sig |-> <<>>]
\* a string that is not a JWT
Garbage == [fmt |-> "garbage", email |-> "", iat |-> 0, exp |-> 0, sig |-> <<>>]

\* a token whose payload was changed to another identity, signature kept
Tamper(tok, email) == [tok EXCEPT !.email = email]

\* jwt.verify that does not check the signature (jwt.decode in its place)
Verify_NoSignature(tok, secret, t) ==
  IF tok.fmt # "jwt"
    THEN [ok |-> FALSE, err |-> "JsonWebTokenError", email |-> ""]
  ELSE IF t >= tok.exp
    THEN [ok |-> FALSE, err |-> "TokenExpiredError", email |-> ""]
  ELSE [ok |-> TRUE, err |-> "", email |-> tok.email]

\* jwt.verify with ignoreExpiration
Verify_NoExpiry(tok, secret, t) ==
  IF tok.fmt # "jwt"
    THEN [ok |-> FALSE, err |-> "JsonWebTokenError", email |-> ""]
  ELSE IF tok.sig # MAC(tok.email, tok.iat, tok.exp, secret)
    THEN [ok |-> FALSE, err |-> "JsonWebTokenError", email |-> ""]
  ELSE [ok |-> TRUE, err |-> "", email |-> tok.email]

\* jwt.verify with the option maxAge: "15m": a token is also expired 15
\* minutes after its iat
Verify_MaxAge(tok, secret, t) ==
  IF tok.fmt # "jwt" \/ secret = Undefined
    THEN [ok |-> FALSE, err |-> "JsonWebTokenError", email |-> ""]
  ELSE IF tok.sig # MAC(tok.email, tok.iat, tok.exp, secret)
    THEN [ok |-> FALSE, err |-> "JsonWebTokenError", email |-> ""]
  ELSE IF t >= tok.exp \/ t >= tok.iat + AccessTTL
    THEN [ok |-> FALSE, err |-> "TokenExpiredError", email |-> ""]
  ELSE [ok |-> TRUE, err |-> "", email |-> tok.email]

\* jwt.verify whose every failure is a JsonWebTokenError
Verify_OneError(tok, secret, t) ==
  IF tok.fmt # "jwt" \/ secret = Undefined
    THEN [ok |-> FALSE, err |-> "JsonWebTokenError", email |-> ""]
  ELSE IF tok.sig # MAC(tok.email, tok.iat, tok.exp, secret)
    THEN [ok |-> FALSE, err |-> "JsonWebTokenError", email |-> ""]
  ELSE IF t >= tok.exp
    THEN [ok |-> FALSE, err |-> "JsonWebTokenError", email |-> ""]
  ELSE [ok |-> TRUE, err |-> "", email |-> tok.email]

\* jwt.verify that reads the expiry of the payload before it checks the
\* signature
Verify_ExpiryFirst(tok, secret, t) ==
  IF tok.fmt # "jwt" \/ secret = Undefined
    THEN [ok |-> FALSE, err |-> "JsonWebTokenError", email |-> ""]
  ELSE IF t >= tok.exp
    THEN [ok |-> FALSE, err |-> "TokenExpiredError", email |-> ""]
  ELSE IF tok.sig # MAC(tok.email, tok.iat, tok.exp, secret)
    THEN [ok |-> FALSE, err |-> "JsonWebTokenError", email |-> ""]
  ELSE [ok |-> TRUE, err |-> "", email |-> tok.email]

\* jwt.verify(token, secret) at clock time t: the parse and the presence of
\* the secret, then the signature, then the expiry (clockTimestamp >= exp is
\* expired)
Verify(tok, secret, t) ==
  IF tok.fmt # "jwt" \/ secret = Undefined
    THEN [ok |-> FALSE, err |-> "JsonWebTokenError", email |-> ""]
  ELSE IF tok.sig # MAC(tok.email, tok.iat, tok.exp, secret)
    THEN [ok |-> FALSE, err |-> "JsonWebTokenError", email |-> ""]
  ELSE IF t >= tok.exp
    THEN [ok |-> FALSE, err |-> "TokenExpiredError", email |-> ""]
  ELSE [ok |-> TRUE, err |-> "", email |-> tok.email]

\* an access token with the expiry of the refresh token
generateAccessToken_7d(email, t) == Sign(email, JWT_SECRET, RefreshTTL, t)

generateAccessToken(email, t) == Sign(email, JWT_SECRET, AccessTTL, t)

generateRefreshToken(email, t) == Sign(email, JWT_SECRET, RefreshTTL, t)

----------------------------------------------------------------------------
(* bcryptjs *)

\* bcrypt.hash(password, 10) with the salt it drew
Hash(password, salt) ==
  [alg |-> "bcrypt", salt |-> salt, digest |-> <<password, salt>>]

\* a comparison that accepts every password for a stored hash
Compare_AnyPassword(password, hash) == hash.alg = "bcrypt"

\* bcrypt.compare(password, hash)
Compare(password, hash) == hash.digest = <<password, hash.salt>>

----------------------------------------------------------------------------
(* Cookies, documents, requests and responses *)

\* a Set-Cookie header of a response: none, a cookie set, or a cookie cleared
NoSetCookie ==
  [act |-> "none", name |-> "", value |-> NoToken, httpOnly |-> FALSE,
   secure |-> FALSE, sameSite |-> "", maxAge |-> 0]

\* res.cookie("refreshToken", refreshToken, {...}) of the login handler
RefreshCookie(tok) ==
  [act |-> "set", name |-> "refreshToken", value |-> tok, httpOnly |-> TRUE,
   secure |-> TRUE, sameSite |-> "none", maxAge |-> CookieMaxAge]

\* res.clearCookie("refreshToken", {...}) of the logout handler
ClearedCookie ==
  [act |-> "clear", name |-> "refreshToken", value |-> NoToken,
   httpOnly |-> TRUE, secure |-> TRUE, sameSite |-> "none", maxAge |-> 0]

\* the cookie jar of the browser: the stored refreshToken cookie, if any
NoCookie == [has |-> FALSE, value |-> NoToken, expires |-> 0]

\* the jar after a response with this Set-Cookie header arrived at time t
JarAfter(j, sc, t) ==
  CASE sc.act = "set" ->
         [has |-> TRUE, value |-> sc.value, expires |-> t + sc.maxAge \div 1000]
    [] sc.act = "clear" -> NoCookie
    [] OTHER -> j

\* req.cookies.refreshToken of a request the browser sends at time t
JarValue(j, t) == IF j.has /\ t < j.expires THEN j.value ELSE NoToken

\* the document db.collection("users").doc(email).set({...}) writes
UserDoc(email, hash, t) ==
  [id |-> email, email |-> email, password |-> hash, role |-> "client",
   status |-> "active", createdAt |-> t]

\* db.collection("users").where("email", "==", email).get()
QueryByEmail(store, email) == {d \in store : d.email = email}

\* db.collection("users").doc(id).get()
DocById(store, id) == {d \in store : d.id = id}

\* collection.add(doc) in the place of doc(id).set(doc): the store draws the id
SetDoc_Add(store, doc) == store \cup {[doc EXCEPT !.id = "auto-id"]}

\* doc(id).set(doc): the document of that id is created or replaced
SetDoc(store, doc) == {d \in store : d.id # doc.id} \cup {doc}

\* a deletion that empties the collection
DeleteDoc_Collection(store, id) == {}

\* doc(id).delete()
DeleteDoc(store, id) == {d \in store : d.id # id}

NoHash == [alg |-> "", salt |-> "", digest |-> <<>>]

\* a request suspended at an await: the handler, the await it is at, the
\* identity (body email or :id) and password of the request, and what the
\* handler goes on to use of the document it read: user.password in the
\* login handler, data.email in the delete handler; and the locals of the
\* stats handler: total, verified and nextPageToken
Pending(op, pc, email, password, hash, dataEmail) ==
  [op |-> op, pc |-> pc, email |-> email, password |-> password,
   hash |-> hash, dataEmail |-> dataEmail,
   total |-> 0, verified |-> 0, nextPageToken |-> 0]

\* the body of the stats response
StatsBody(total, verified) ==
  [totalUsers |-> total, verifiedUsers |-> verified,
   unverifiedUsers |-> total - verified,
   systemStatus |-> "Active", security |-> "Protected"]

\* the body of a response that is not one of stats
NoStats ==
  [totalUsers |-> 0, verifiedUsers |-> 0, unverifiedUsers |-> 0,
   systemStatus |-> "", security |-> ""]

\* a response, with the time it is sent at and the request it answers: the
\* identity of the request (body email or :id), the token it presented, and
\* whether the browser sent it from its jar
Response(op, email, status, msg, t) ==
  [op |-> op, email |-> email, status |-> status, msg |-> msg, at |-> t,
   accessToken |-> NoToken, setCookie |-> NoSetCookie, reqToken |-> NoToken,
   viaJar |-> FALSE, user |-> "", stats |-> NoStats]

NoResponse == Response("", "", 0, "", 0)

\* the tokens a client can present: the held ones, those with the payload
\* changed, tokens signed with another secret, and a string that is no JWT
Forged(held, t) ==
  ({Tamper(tok, e) : tok \in held, e \in Emails} \ held) \cup
  {Sign(e, OtherSecret, AccessTTL, 0) : e \in Emails} \cup
  {Garbage}

\* what the clients hold: the kept tokens, the cookie of the jar and the
\* access token of the last response
Held == {kept, jar.value, resp.accessToken} \ {NoToken}

\* a client keeps a copy of the cookie of the jar or of the access token of
\* the last response
Keep(tok) ==
  /\ tok \in {jar.value, resp.accessToken} \ {NoToken, kept}
  /\ kept' = tok
  /\ UNCHANGED <<now, ticks, users, authDir, inflight, jar, phase, resp,
               env, proc>>

Presentable(t) == Held \cup Forged(Held, t)

\* the principals of the Firebase Auth directory, which listUsers returns in
\* the order of their uids: those of the registered identities
Principal(email) ==
  [uid |-> IF email = "a@x.com" THEN 1 ELSE 2, email |-> email,
   emailVerified |-> email = "a@x.com"]

\* a principal of the directory by its uid
Account(uid, verified) ==
  [uid |-> uid, email |-> "u" \o ToString(uid) \o "@x.com",
   emailVerified |-> verified]

\* the directories of at most MaxPrincipals principals
Directories ==
  {{Account(u, v[u]) : u \in S} :
     S \in SUBSET (1..MaxPrincipals), v \in [1..MaxPrincipals -> BOOLEAN]}

----------------------------------------------------------------------------
Init ==
  /\ now = 0
  /\ ticks = 0
  /\ users = {}
  /\ authDir = {Principal(e) : e \in Emails}
  /\ inflight = EmptyBag
  /\ jar = NoCookie
  /\ phase = "NoSession"
  /\ kept = NoToken
  /\ resp = NoResponse
  /\ env = EnvNames
  /\ proc = "listening"

CanSuspend == BagCardinality(inflight) < MaxReqs

\* the server accepts requests once app.listen has run
Serving == proc = "listening"

Suspend(r) == inflight' = inflight (+) SetToBag({r})

Resume(r) == inflight' = inflight (-) SetToBag({r})

\* the clock advances
Tick ==
  /\ ticks < MaxTicks
  /\ now' = now + TickSteps[(ticks % Len(TickSteps)) + 1]
  /\ ticks' = ticks + 1
  /\ UNCHANGED <<users, authDir, inflight, jar, phase, kept, resp, env, proc>>


----------------------------------------------------------------------------
(* POST /api/register *)

\* up to the first await: the query by email; a failed query, a found
\* document, or the request suspended before hashing and writing
RegisterQuery(email, password, ok) ==
  /\ Serving
  /\ CanSuspend
  /\ IF ~ok
       THEN /\ resp' = Response("register", email, 500, "Register failed", now)
            /\ UNCHANGED inflight
     ELSE IF QueryByEmail(users, email) # {}
       THEN /\ resp' = Response("register", email, 400, "User exists", now)
            /\ UNCHANGED inflight
     ELSE /\ Suspend(Pending("register", "set", email, password, NoHash, ""))
          /\ UNCHANGED resp
  /\ UNCHANGED <<now, ticks, users, authDir, jar, phase, kept, env, proc>>

\* a handler whose failure comes after the document is written
RegisterSet_WritesThenFails(r, salt, ok) ==
  /\ Serving
  /\ BagIn(r, inflight)
  /\ r.op = "register" /\ r.pc = "set"
  /\ Resume(r)
  /\ users' = SetDoc(users, UserDoc(r.email, Hash(r.password, salt), now))
  /\ resp' = IF ok
               THEN Response("register", r.email, 200,
                             "Registered successfully", now)
             ELSE Response("register", r.email, 500, "Register failed", now)
  /\ UNCHANGED <<now, ticks, authDir, jar, phase, kept, env, proc>>

\* bcrypt.hash, then doc(email).set and the response
RegisterSet(r, salt, ok) ==
  /\ Serving
  /\ BagIn(r, inflight)
  /\ r.op = "register" /\ r.pc = "set"
  /\ Resume(r)
  /\ IF ~ok
       THEN /\ resp' = Response("register", r.email, 500, "Register failed", now)
            /\ UNCHANGED users
     ELSE /\ users' = SetDoc(users, UserDoc(r.email, Hash(r.password, salt), now))
          /\ resp' = Response("register", r.email, 200, "Registered successfully", now)
  /\ UNCHANGED <<now, ticks, authDir, jar, phase, kept, env, proc>>

----------------------------------------------------------------------------
(* POST /api/login *)

\* up to the first await: the query by email
LoginQuery(email, password, ok) ==
  /\ Serving
  /\ CanSuspend
  /\ IF ~ok
       THEN /\ resp' = Response("login", email, 500, "Login failed", now)
            /\ UNCHANGED inflight
     ELSE IF QueryByEmail(users, email) = {}
       THEN /\ resp' = Response("login", email, 400, "Invalid credentials", now)
            /\ UNCHANGED inflight
     ELSE /\ \E user \in QueryByEmail(users, email) :
               Suspend(Pending("login", "compare", email, password, user.password, ""))
          /\ UNCHANGED resp
  /\ UNCHANGED <<now, ticks, users, authDir, jar, phase, kept, env, proc>>

\* the response of a successful login: the access token in the body, the
\* refresh token in the cookie
LoginOk(email, t) ==
  [Response("login", email, 200, "", t) EXCEPT
     !.accessToken = generateAccessToken(email, t),
     !.setCookie = RefreshCookie(generateRefreshToken(email, t))]

\* bcrypt.compare, then the tokens, the cookie and the response
LoginCompare(r, ok) ==
  /\ Serving
  /\ BagIn(r, inflight)
  /\ r.op = "login" /\ r.pc = "compare"
  /\ Resume(r)
  /\ resp' = IF ~ok THEN Response("login", r.email, 500, "Login failed", now)
             ELSE IF ~Compare(r.password, r.hash)
               THEN Response("login", r.email, 400, "Invalid credentials", now)
             ELSE IF generateAccessToken(r.email, now) = Thrown
               THEN Response("login", r.email, 500, "Login failed", now)
             ELSE LoginOk(r.email, now)
  /\ jar' = JarAfter(jar, resp'.setCookie, now)
  /\ phase' = IF resp'.status = 200 THEN "Authenticated" ELSE phase
  /\ UNCHANGED <<now, ticks, users, authDir, kept, env, proc>>

----------------------------------------------------------------------------
(* POST /api/refresh *)

\* a refresh that looks the identity of the token up in the store
RefreshResponse_ChecksStore(tok, t) ==
  IF tok.fmt = "none"
    THEN Response("refresh", "", 401, "", t)
  ELSE IF ~Verify(tok, JWT_SECRET, t).ok
    THEN Response("refresh", "", 403, "", t)
  ELSE IF QueryByEmail(users, Verify(tok, JWT_SECRET, t).email) = {}
    THEN Response("refresh", "", 403, "", t)
  ELSE [Response("refresh", "", 200, "", t) EXCEPT
          !.accessToken = generateAccessToken(Verify(tok, JWT_SECRET, t).email, t)]

\* a refresh that rotates the refresh token: it sets a new cookie
RefreshResponse_Rotates(tok, t) ==
  IF tok.fmt = "none"
    THEN Response("refresh", "", 401, "", t)
  ELSE IF ~Verify(tok, JWT_SECRET, t).ok
    THEN Response("refresh", "", 403, "", t)
  ELSE [Response("refresh", "", 200, "", t) EXCEPT
          !.accessToken = generateAccessToken(Verify(tok, JWT_SECRET, t).email, t),
          !.setCookie =
             RefreshCookie(generateRefreshToken(Verify(tok, JWT_SECRET, t).email, t))]

\* the response to a refresh request whose refreshToken cookie is tok
RefreshResponse(tok, t) ==
  IF tok.fmt = "none"
    THEN Response("refresh", "", 401, "", t)
  ELSE IF ~Verify(tok, JWT_SECRET, t).ok
    THEN Response("refresh", "", 403, "", t)
  ELSE [Response("refresh", "", 200, "", t) EXCEPT
          !.accessToken = generateAccessToken(Verify(tok, JWT_SECRET, t).email, t)]

\* the browser sends its jar (viaJar), or a client sends a token it holds
Refresh(tok, viaJar) ==
  /\ Serving
  /\ viaJar => tok = JarValue(jar, now)
  /\ resp' = [RefreshResponse(tok, now) EXCEPT !.reqToken = tok, !.viaJar = viaJar]
  /\ jar' = IF viaJar THEN JarAfter(jar, resp'.setCookie, now) ELSE jar
  /\ UNCHANGED <<now, ticks, users, authDir, inflight, kept, phase, env, proc>>

----------------------------------------------------------------------------
(* POST /api/logout *)

\* a logout that does not clear the cookie
LogoutResponse_NoClear(t) == Response("logout", "", 200, "Logged out", t)

LogoutResponse(t) ==
  [Response("logout", "", 200, "Logged out", t) EXCEPT !.setCookie = ClearedCookie]

\* the browser logs out (viaJar), or another client does
Logout(viaJar) ==
  /\ Serving
  /\ resp' = [LogoutResponse(now) EXCEPT !.viaJar = viaJar]
  /\ jar' = IF viaJar THEN JarAfter(jar, resp'.setCookie, now) ELSE jar
  /\ phase' = IF viaJar THEN "LoggedOut" ELSE phase
  /\ UNCHANGED <<now, ticks, users, authDir, inflight, kept, env, proc>>


----------------------------------------------------------------------------
(* GET /api/dashboard, behind the session middleware *)

\* the session middleware: extract, verify, admit
Auth(tok, t) ==
  IF tok.fmt = "none"
    THEN [admit |-> FALSE, status |-> 401, user |-> ""]
  ELSE IF ~Verify(tok, JWT_SECRET, t).ok
    THEN [admit |-> FALSE, status |-> 403, user |-> ""]
  ELSE [admit |-> TRUE, status |-> 200, user |-> Verify(tok, JWT_SECRET, t).email]

\* a handler that echoes a field the middleware does not set
DashboardHandler_NoUser(user, t) ==
  [Response("dashboard", "", 200, "Welcome to dashboard", t) EXCEPT !.user = ""]

\* the handler, which runs with the identity the middleware attached
DashboardHandler(user, t) ==
  [Response("dashboard", "", 200, "Welcome to dashboard", t) EXCEPT !.user = user]

DashboardResponse(tok, t) ==
  IF Auth(tok, t).admit
    THEN DashboardHandler(Auth(tok, t).user, t)
  ELSE Response("dashboard", "", Auth(tok, t).status, "", t)

Dashboard(tok) ==
  /\ Serving
  /\ resp' = [DashboardResponse(tok, now) EXCEPT !.reqToken = tok]
  /\ UNCHANGED <<now, ticks, users, authDir, inflight, jar, phase, kept,
               env, proc>>

----------------------------------------------------------------------------
(* DELETE /api/users/:id *)

\* up to the first await: the document of that id
DeleteGet(id, ok) ==
  /\ Serving
  /\ CanSuspend
  /\ IF ~ok
       THEN /\ resp' = Response("delete", id, 500, "Delete failed", now)
            /\ UNCHANGED inflight
     ELSE IF DocById(users, id) = {}
       THEN /\ resp' = Response("delete", id, 404, "User not found", now)
            /\ UNCHANGED inflight
     ELSE /\ \E data \in DocById(users, id) :
               Suspend(Pending("delete", "auth", id, "", NoHash, data.email))
          /\ UNCHANGED resp
  /\ UNCHANGED <<now, ticks, users, authDir, jar, phase, kept, env, proc>>

\* a handler without the inner try: a failure in the directory ends the
\* request with 500
DeleteAuth_Fatal(r, ok) ==
  /\ Serving
  /\ BagIn(r, inflight)
  /\ r.op = "delete" /\ r.pc = "auth"
  /\ IF ok
       THEN /\ inflight' = (inflight (-) SetToBag({r})) (+)
                             SetToBag({[r EXCEPT !.pc = "doc"]})
            /\ authDir' = {p \in authDir : p.email # r.dataEmail}
            /\ UNCHANGED resp
     ELSE /\ Resume(r)
          /\ resp' = Response("delete", r.email, 500, "Delete failed", now)
          /\ UNCHANGED authDir
  /\ UNCHANGED <<now, ticks, users, jar, phase, kept, env, proc>>

\* getUserByEmail(data.email) and deleteUser(uid): a failure of either is
\* swallowed, and so is a principal that does not exist
DeleteAuth(r, ok) ==
  /\ Serving
  /\ BagIn(r, inflight)
  /\ r.op = "delete" /\ r.pc = "auth"
  /\ inflight' = (inflight (-) SetToBag({r})) (+) SetToBag({[r EXCEPT !.pc = "doc"]})
  /\ authDir' = IF ok THEN {p \in authDir : p.email # r.dataEmail} ELSE authDir
  /\ UNCHANGED <<now, ticks, users, jar, phase, kept, resp, env, proc>>

\* docRef.delete() and the response
DeleteDocStep(r, ok) ==
  /\ Serving
  /\ BagIn(r, inflight)
  /\ r.op = "delete" /\ r.pc = "doc"
  /\ Resume(r)
  /\ IF ~ok
       THEN /\ resp' = Response("delete", r.email, 500, "Delete failed", now)
            /\ UNCHANGED users
     ELSE /\ users' = DeleteDoc(users, r.email)
          /\ resp' = Response("delete", r.email, 200, "success", now)
  /\ UNCHANGED <<now, ticks, authDir, jar, phase, kept, env, proc>>

----------------------------------------------------------------------------
(* GET /api/stats *)

\* let nextPageToken: undefined, and a result without pageToken
NoPageToken == 0

\* a listUsers whose page starts at the principal of the cursor, not after it
ListUsers_Inclusive(dir, maxResults, pageToken) ==
  LET rest == {p \in dir : p.uid >= pageToken}
      page == {p \in rest :
                 Cardinality({q \in rest : q.uid < p.uid}) < maxResults}
      last == {p.uid : p \in {q \in page : \A o \in page : o.uid <= q.uid}}
  IN  {[users |-> page, pageToken |-> t] :
         t \in IF page # rest THEN last
               ELSE IF Cardinality(page) = maxResults
                 THEN last \cup {NoPageToken}
               ELSE {NoPageToken}}

\* admin.auth().listUsers(maxResults, pageToken): the results it can give.
\* The page holds the principals after the cursor, in the order of their
\* uids, maxResults at most; the result carries a cursor, the uid of the last
\* principal of the page, when principals remain after the page, and may
\* carry one when the page is full and is the last
ListUsers(dir, maxResults, pageToken) ==
  LET rest == {p \in dir : p.uid > pageToken}
      page == {p \in rest :
                 Cardinality({q \in rest : q.uid < p.uid}) < maxResults}
      last == {p.uid : p \in {q \in page : \A o \in page : o.uid <= q.uid}}
  IN  {[users |-> page, pageToken |-> t] :
         t \in IF page # rest THEN last
               ELSE IF Cardinality(page) = maxResults
                 THEN last \cup {NoPageToken}
               ELSE {NoPageToken}}

\* the handler up to its first await: total = 0, verified = 0 and the first
\* call of listUsers, with nextPageToken undefined
StatsStart ==
  /\ Serving
  /\ CanSuspend
  /\ Suspend(Pending("stats", "list", "", "", NoHash, ""))
  /\ UNCHANGED <<now, ticks, users, authDir, jar, phase, kept, resp, env, proc>>

\* a call of listUsers returns: a failure ends the request with 500; else
\* the principals of the page are counted, and the loop goes on with the
\* cursor of the result or, without one, ends with the response
StatsList(r, ok) ==
  /\ Serving
  /\ BagIn(r, inflight)
  /\ r.op = "stats" /\ r.pc = "list"
  /\ IF ~ok
       THEN /\ Resume(r)
            /\ resp' = Response("stats", "", 500, "Failed to fetch stats", now)
     ELSE \E result \in ListUsers(authDir, PageSize, r.nextPageToken) :
            LET total == r.total + Cardinality(result.users)
                verified == r.verified +
                              Cardinality({u \in result.users : u.emailVerified})
            IN  IF result.pageToken # NoPageToken
                  THEN /\ inflight' = (inflight (-) SetToBag({r})) (+)
                            SetToBag({[r EXCEPT !.total = total,
                                                !.verified = verified,
                                                !.nextPageToken = result.pageToken]})
                       /\ UNCHANGED resp
                ELSE /\ Resume(r)
                     /\ resp' = [Response("stats", "", 200, "", now) EXCEPT
                                   !.stats = StatsBody(total, verified)]
  /\ UNCHANGED <<now, ticks, users, authDir, jar, phase, kept, env, proc>>

----------------------------------------------------------------------------
(* Startup: require("./firebase") and app.listen *)

\* firebase.js: without FIREBASE_SERVICE_ACCOUNT the module throws while it
\* is loaded and the process exits; with it, the admin SDK is initialised
RequireFirebase ==
  /\ proc = "loading"
  /\ proc' = IF "FIREBASE_SERVICE_ACCOUNT" \in env THEN "loaded" ELSE "exited"
  /\ UNCHANGED <<now, ticks, users, authDir, inflight, jar, kept, phase, resp,
                 env>>

\* the rest of server.js runs to its end: the routes are defined and
\* app.listen is called; nothing on the way reads process.env.JWT_SECRET
Listen ==
  /\ proc = "loaded"
  /\ proc' = "listening"
  /\ UNCHANGED <<now, ticks, users, authDir, inflight, jar, kept, phase, resp,
                 env>>

----------------------------------------------------------------------------
(* The next-state relations *)

\* the requests of a client that holds tokens
TokenRequests ==
  \/ Refresh(JarValue(jar, now), TRUE)
  \/ \E tok \in Presentable(now) \cup {NoToken} : Refresh(tok, FALSE)
  \/ \E viaJar \in BOOLEAN : Logout(viaJar)
  \/ \E tok \in Presentable(now) \cup {NoToken} : Dashboard(tok)
  \/ \E tok \in Held : Keep(tok)

LoginArrives ==
  \E e \in Emails, p \in Passwords, ok \in BOOLEAN : LoginQuery(e, p, ok)

LoginResumes ==
  \E r \in BagToSet(inflight), ok \in BOOLEAN : LoginCompare(r, ok)

RegisterArrives ==
  \E e \in Emails, p \in Passwords, ok \in BOOLEAN : RegisterQuery(e, p, ok)

RegisterResumes ==
  \E r \in BagToSet(inflight), s \in Salts, ok \in BOOLEAN : RegisterSet(r, s, ok)

DeleteArrives ==
  \E id \in Emails, ok \in BOOLEAN : DeleteGet(id, ok)

DeleteResumes ==
  \/ \E r \in BagToSet(inflight), ok \in BOOLEAN : DeleteAuth(r, ok)
  \/ \E r \in BagToSet(inflight), ok \in BOOLEAN : DeleteDocStep(r, ok)

StatsArrives == StatsStart

StatsResumes ==
  \E r \in BagToSet(inflight), ok \in BOOLEAN : StatsList(r, ok)

\* the whole server
Next ==
  \/ Tick
  \/ RegisterArrives \/ RegisterResumes
  \/ LoginArrives \/ LoginResumes
  \/ DeleteArrives \/ DeleteResumes
  \/ StatsArrives \/ StatsResumes
  \/ TokenRequests

Spec == Init /\ [][Next]_vars

\* the credential store under concurrent requests: registrations and
\* deletions interleaved at their awaits
StoreNext ==
  \/ RegisterArrives \/ RegisterResumes
  \/ DeleteArrives \/ DeleteResumes

SpecStore == Init /\ [][StoreNext]_vars

\* the whole server with its requests served one at a time and the clock
\* standing still
SerialNext ==
  \/ /\ inflight = EmptyBag
     /\ \/ RegisterArrives \/ LoginArrives \/ DeleteArrives \/ StatsArrives
        \/ TokenRequests
  \/ RegisterResumes \/ LoginResumes \/ DeleteResumes \/ StatsResumes

SpecSerial == Init /\ [][SerialNext]_vars

\* the requests of the browser that present a token: the refresh and the
\* logout with its jar, the dashboard with the access token of the last
\* response
BrowserRequests ==
  \/ Refresh(JarValue(jar, now), TRUE)
  \/ Logout(TRUE)
  \/ Dashboard(resp.accessToken)

\* no request of the identity is suspended at an await
Idle(email) == \A r \in BagToSet(inflight) : r.email # email

\* the requests of the routes that concern one identity, those of different
\* identities interleaved at their awaits and those of one identity one
\* after the other, the clock standing still
ConcurrentNext ==
  \/ \E e \in Emails, p \in Passwords, ok \in BOOLEAN :
        Idle(e) /\ RegisterQuery(e, p, ok)
  \/ RegisterResumes
  \/ \E e \in Emails, p \in Passwords, ok \in BOOLEAN :
        Idle(e) /\ LoginQuery(e, p, ok)
  \/ LoginResumes
  \/ \E e \in Emails, ok \in BOOLEAN : Idle(e) /\ DeleteGet(e, ok)
  \/ DeleteResumes
  \/ BrowserRequests

SpecConcurrent == Init /\ [][ConcurrentNext]_vars

\* the sessions of registered users: the store holds a record of every
\* identity, no request registers or deletes, and one login is under way at
\* a time, interleaved with the requests that present tokens
Registered ==
  {UserDoc("a@x.com", Hash("pw1", "s1"), 0), UserDoc("b@x.com", Hash("pw2", "s2"), 0)}

SessionInit ==
  /\ now = 0
  /\ ticks = 0
  /\ users = Registered
  /\ authDir = {Principal(e) : e \in Emails}
  /\ inflight = EmptyBag
  /\ jar = NoCookie
  /\ phase = "NoSession"
  /\ kept = NoToken
  /\ resp = NoResponse
  /\ env = EnvNames
  /\ proc = "listening"

SessionNext ==
  \/ Tick
  \/ inflight = EmptyBag /\ LoginArrives
  \/ LoginResumes
  \/ TokenRequests

SpecSession == SessionInit /\ [][SessionNext]_vars

\* the server from the start of its process, in every environment, with the
\* store of SessionInit: once it listens it serves the browser's sessions, one
\* login at a time, the clock standing still
BootInit ==
  /\ now = 0
  /\ ticks = 0
  /\ users = Registered
  /\ authDir = {Principal(e) : e \in Emails}
  /\ inflight = EmptyBag
  /\ jar = NoCookie
  /\ phase = "NoSession"
  /\ kept = NoToken
  /\ resp = NoResponse
  /\ env \in SUBSET EnvNames
  /\ proc = "loading"

BootNext ==
  \/ RequireFirebase
  \/ Listen
  \/ inflight = EmptyBag /\ LoginArrives
  \/ LoginResumes
  \/ TokenRequests

SpecBoot == BootInit /\ [][BootNext]_vars

\* GET /api/stats over every directory of at most MaxPrincipals principals,
\* with concurrent requests
StatsInit ==
  /\ now = 0
  /\ ticks = 0
  /\ users = {}
  /\ authDir \in Directories
  /\ inflight = EmptyBag
  /\ jar = NoCookie
  /\ phase = "NoSession"
  /\ kept = NoToken
  /\ resp = NoResponse
  /\ env = EnvNames
  /\ proc = "listening"

StatsNext == StatsArrives \/ StatsResumes

SpecStats == StatsInit /\ [][StatsNext]_vars

----------------------------------------------------------------------------
(* Properties *)

\* a token that the server's secret signs: its signature is the MAC of the
\* claims it carries
ServerSigned(tok) ==
  tok.fmt = "jwt" /\ tok.sig = MAC(tok.email, tok.iat, tok.exp, JWT_SECRET)

\* a token that is signed by the server and not expired at time t
Valid(tok, t) == ServerSigned(tok) /\ t < tok.exp

\* a step of the refresh handler, whoever sends the request
RefreshStep == resp'.op = "refresh" /\ Refresh(resp'.reqToken, resp'.viaJar)

\* C1: a refresh response carries an access token only if the token of the
\* refreshToken cookie is signed with the server's secret and not expired
\* when the response is sent, and the access token is signed by the server
\* for the identity which that cookie token encodes
C1_RefreshMintsForCookieIdentity ==
  (resp.op = "refresh" /\ resp.accessToken # NoToken) =>
    /\ Valid(resp.reqToken, resp.at)
    /\ ServerSigned(resp.accessToken)
    /\ resp.accessToken.email = resp.reqToken.email

\* a client presents a token of one identity while the jar of the browser
\* holds the cookie of another, and receives an access token
C1_Witness ==
  /\ resp.op = "refresh" /\ resp.accessToken # NoToken
  /\ ~resp.viaJar
  /\ jar.has /\ jar.value.email # resp.reqToken.email

\* the dashboard handler ran for the last response
HandlerRan == resp.msg = "Welcome to dashboard"

\* C2: a request to the protected route ends in exactly one of three ways:
\* 401 without a bearer token, 403 with a token that does not verify, and
\* otherwise 200 from the handler, which echoes the identity of the token;
\* the handler runs on neither rejection
C2_MiddlewareOutcomes ==
  resp.op = "dashboard" =>
    IF resp.reqToken = NoToken
      THEN resp.status = 401 /\ ~HandlerRan /\ resp.user = ""
    ELSE IF ~Valid(resp.reqToken, resp.at)
      THEN resp.status = 403 /\ ~HandlerRan /\ resp.user = ""
    ELSE resp.status = 200 /\ HandlerRan /\ resp.user = resp.reqToken.email

\* a token is admitted in the last second before its expiry
C2_Witness ==
  /\ resp.op = "dashboard" /\ HandlerRan
  /\ resp.user = "b@x.com"
  /\ resp.at = resp.reqToken.exp - 1

\* C3: a refresh request without a refreshToken cookie is answered 401, one
\* whose cookie token is not signed by the server or is expired is answered
\* 403, and a refresh response other than 200 carries no access token, sets
\* or clears no cookie and leaves the jar as it is
C3_RefreshFailures ==
  [][RefreshStep =>
       /\ (resp'.reqToken = NoToken) => (resp'.status = 401)
       /\ (resp'.reqToken # NoToken /\ ~Valid(resp'.reqToken, now))
            => (resp'.status = 403)
       /\ (resp'.status # 200) =>
            /\ resp'.accessToken = NoToken
            /\ resp'.setCookie = NoSetCookie
            /\ jar' = jar]_vars

\* the browser holds a cookie while a token with a changed payload is refused
C3_Witness ==
  /\ resp.op = "refresh" /\ resp.status = 403
  /\ resp.reqToken.fmt = "jwt" /\ resp.reqToken.sig[4] = JWT_SECRET
  /\ ~ServerSigned(resp.reqToken)
  /\ jar.has

\* a refresh token and an access token of the server, by their life times
IsRefreshToken(tok) == ServerSigned(tok) /\ tok.exp - tok.iat = RefreshTTL

IsAccessToken(tok) == ServerSigned(tok) /\ tok.exp - tok.iat = AccessTTL

\* C4: after the browser logged out, and until a login answers it with a
\* new cookie, a refresh request of the browser is answered 401
C4_RefreshAfterLogout ==
  (resp.op = "refresh" /\ resp.viaJar /\ phase = "LoggedOut") => resp.status = 401

\* the browser is refused after its logout, while the refresh token of its
\* login, of which a client kept a copy, has not expired
C4_Witness ==
  /\ resp.op = "refresh" /\ resp.viaJar /\ phase = "LoggedOut"
  /\ resp.status = 401
  /\ IsRefreshToken(kept) /\ Valid(kept, now)

\* C5: a refresh request whose cookie token is valid is answered 200 with an
\* access token minted at that time for 15 minutes; the response sets no
\* cookie and the jar keeps the refresh token it holds, so that the same
\* refresh token is accepted at every time before its own expiry
C5_RefreshKeepsRefreshToken ==
  [][(RefreshStep /\ Valid(resp'.reqToken, now)) =>
       /\ resp'.status = 200
       /\ IsAccessToken(resp'.accessToken)
       /\ resp'.accessToken.iat = now
       /\ resp'.accessToken.email = resp'.reqToken.email
       /\ resp'.setCookie = NoSetCookie
       /\ jar' = jar]_vars

\* the browser refreshes in the last second of its refresh token, after an
\* earlier refresh with the same cookie, of which a client kept the result
C5_Witness ==
  /\ resp.op = "refresh" /\ resp.viaJar /\ resp.status = 200
  /\ jar.has /\ IsRefreshToken(jar.value)
  /\ resp.at = jar.value.exp - 1
  /\ IsAccessToken(kept) /\ kept.email = jar.value.email
  /\ kept.iat > jar.value.iat

\* C6: the logout response clears the refreshToken cookie and does nothing
\* else; every access token in a response expires 15 minutes after it, and
\* in every phase of the session, also after the logout, the middleware
\* admits a token of the server before its expiry and rejects it from then on
C6_AccessTokenOutlivesLogout ==
  /\ (resp.op = "logout") =>
       (resp.setCookie = ClearedCookie /\ resp.accessToken = NoToken)
  /\ (resp.accessToken # NoToken) =>
       (IsAccessToken(resp.accessToken) /\ resp.accessToken.iat = resp.at)
  /\ (resp.op = "dashboard" /\ ServerSigned(resp.reqToken)) =>
       IF resp.at < resp.reqToken.exp
         THEN resp.status = 200 /\ resp.user = resp.reqToken.email
         ELSE resp.status = 403

\* after the logout of the browser, the access token a client kept is
\* admitted in the last second before its expiry
C6_Witness ==
  /\ phase = "LoggedOut" /\ ~jar.has
  /\ resp.op = "dashboard" /\ resp.status = 200
  /\ resp.reqToken = kept /\ IsAccessToken(kept)
  /\ resp.at = kept.exp - 1

\* C7: whatever the store holds and whatever logouts, registrations and
\* deletions came before, a request that presents a token to the refresh
\* handler or to the middleware is answered 200 exactly if the token is
\* signed by the server and not expired, and a refresh mints for the identity
\* of the token
C7_VerificationIgnoresStore ==
  (resp.op \in {"refresh", "dashboard"} /\ resp.reqToken # NoToken) =>
    /\ (resp.status = 200) <=> Valid(resp.reqToken, resp.at)
    /\ (resp.status # 200) => (resp.status = 403)
    /\ (resp.op = "refresh" /\ resp.status = 200) =>
         (resp.accessToken.email = resp.reqToken.email)

\* after the logout of the browser and the deletion of the record and of the
\* principal of its identity, a refresh token that a client kept is answered
\* with an access token
C7_Witness ==
  /\ resp.op = "refresh" /\ resp.status = 200
  /\ resp.reqToken = kept /\ IsRefreshToken(kept)
  /\ phase = "LoggedOut" /\ ~jar.has
  /\ QueryByEmail(users, kept.email) = {}
  /\ \A p \in authDir : p.email # kept.email
  /\ resp.accessToken.email = kept.email

\* the store holds a record of the identity whose hash is that of the password
Matches(store, email, password) ==
  \E d \in QueryByEmail(store, email) :
     d.password = Hash(password, d.password.salt)

\* a step in which the login handler answers the request of email, password
LoginAnswers(email, password) ==
  /\ resp'.op = "login" /\ resp'.email = email
  /\ \/ inflight' = inflight /\ LoginQuery(email, password, resp'.status # 500)
     \/ \E r \in BagToSet(inflight) :
          /\ r.email = email /\ r.password = password
          /\ LoginCompare(r, resp'.status # 500)

\* C8: the login handler, when no call to a collaborator fails, answers a
\* request whose identity has a record with the hash of the password: 200,
\* an access token of the identity in the body and one cookie, refreshToken,
\* HTTP-only, secure, SameSite=None, of 7 days, with a refresh token of the
\* identity; and every other request: 400 "Invalid credentials", with no
\* token and no cookie
C8_LoginOutcomes ==
  [][\A e \in Emails, p \in Passwords :
       (LoginAnswers(e, p) /\ resp'.status # 500) =>
         IF Matches(users, e, p)
           THEN /\ resp'.status = 200
                /\ IsAccessToken(resp'.accessToken)
                /\ resp'.accessToken.email = e /\ resp'.accessToken.iat = now
                /\ resp'.setCookie.act = "set"
                /\ resp'.setCookie.name = "refreshToken"
                /\ resp'.setCookie.httpOnly /\ resp'.setCookie.secure
                /\ resp'.setCookie.sameSite = "none"
                /\ resp'.setCookie.maxAge = RefreshTTL * 1000
                /\ IsRefreshToken(resp'.setCookie.value)
                /\ resp'.setCookie.value.email = e
                /\ resp'.setCookie.value.iat = now
                /\ jar'.has /\ jar'.value = resp'.setCookie.value
           ELSE /\ resp' = Response("login", e, 400, "Invalid credentials", now)
                /\ jar' = jar]_vars

\* a login is answered with the tokens of its identity, while the other
\* identity has no record
C8_Witness ==
  /\ resp.op = "login" /\ resp.status = 200
  /\ resp.accessToken.email = resp.email
  /\ jar.has /\ jar.value = resp.setCookie.value
  /\ Cardinality(users) = 1 /\ QueryByEmail(users, resp.email) # {}

\* a step in which the register handler answers the request of email
RegisterAnswers(email) ==
  /\ resp'.op = "register" /\ resp'.email = email
  /\ \/ inflight' = inflight /\
          \E p \in Passwords : RegisterQuery(email, p, resp'.status # 500)
     \/ \E r \in BagToSet(inflight), s \in Salts :
          r.email = email /\ RegisterSet(r, s, resp'.status # 500)

\* C9: the register handler, when no call to a collaborator fails: a request
\* whose identity has a record when the handler queries is answered 400 "User
\* exists" and the store stays as it is; a request whose identity has none
\* goes on to write, and is then answered 200 "Registered successfully",
\* after which the store holds exactly one record of the identity, with the
\* identity as its key, role client and status active, and the records of the
\* other identities as they were
C9_RegisterOutcomes ==
  [][\A e \in Emails :
       /\ (RegisterAnswers(e) /\ resp'.status # 500) =>
            IF inflight' = inflight
              THEN /\ QueryByEmail(users, e) # {}
                   /\ resp' = Response("register", e, 400, "User exists", now)
                   /\ users' = users
              ELSE /\ resp' = Response("register", e, 200, "Registered successfully", now)
                   /\ Cardinality(QueryByEmail(users', e)) = 1
                   /\ \A d \in QueryByEmail(users', e) :
                        d.id = e /\ d.role = "client" /\ d.status = "active"
                   /\ {d \in users' : d.email # e} = {d \in users : d.email # e}
       /\ \A p \in Passwords :
            (QueryByEmail(users, e) = {} /\ inflight' = inflight) =>
               ~RegisterQuery(e, p, TRUE)]_vars

\* both identities are registered, the second one just now
C9_Witness ==
  /\ resp.op = "register" /\ resp.status = 200
  /\ Cardinality(users) = 2
  /\ \A d \in users : d.id = d.email

\* C10: a record, once created, stays as it is until it is deleted, and the
\* register handler answers "Registered successfully" only for an identity
\* that has no record when it writes
C10_RecordNeverModified ==
  [][\A e \in Emails :
       /\ (QueryByEmail(users, e) # {}) =>
            \/ QueryByEmail(users', e) = QueryByEmail(users, e)
            \/ QueryByEmail(users', e) = {}
       /\ (RegisterAnswers(e) /\ resp'.status = 200) =>
            (QueryByEmail(users, e) = {})]_vars

\* the outcome of a verification that succeeds, for an identity
Verified(email) == [ok |-> TRUE, err |-> "", email |-> email]

\* the identity a response issues its tokens for: that of the login request,
\* or that of the token of the refresh request
IssuedFor == IF resp.op = "login" THEN resp.email ELSE resp.reqToken.email

\* C11: the access token of a response verifies, for the identity it was
\* issued for, at the time of the response, one second later and in the last
\* second of its 15 minutes; the refresh token of a login response verifies
\* for the identity of the login at the time of the response, 15 minutes
\* later and in the last second of its 7 days; and the refresh handler
\* accepts a token of the server, for its identity, at every time before the
\* end of the 15 minutes or 7 days it was issued for
C11_IssuedTokenVerifies ==
  /\ (resp.accessToken # NoToken) =>
       \A t \in {resp.at, resp.at + 1, resp.at + AccessTTL - 1} :
          Verify(resp.accessToken, JWT_SECRET, t) = Verified(IssuedFor)
  /\ (resp.setCookie.act = "set") =>
       \A t \in {resp.at, resp.at + AccessTTL, resp.at + RefreshTTL - 1} :
          Verify(resp.setCookie.value, JWT_SECRET, t) = Verified(resp.email)
  /\ (/\ resp.op = "refresh"
      /\ \/ IsAccessToken(resp.reqToken) /\
              resp.at < resp.reqToken.iat + AccessTTL
         \/ IsRefreshToken(resp.reqToken) /\
              resp.at < resp.reqToken.iat + RefreshTTL) =>
       /\ resp.status = 200
       /\ resp.accessToken.email = resp.reqToken.email

\* an access token is verified at the time it was issued at, and the
\* verification yields its identity
C11_Witness ==
  /\ resp.op = "refresh" /\ resp.status = 200
  /\ IsAccessToken(resp.reqToken)
  /\ resp.at = resp.reqToken.iat
  /\ resp.reqToken.email = "b@x.com" /\ resp.accessToken.email = "b@x.com"

\* the outcomes of a verification that fails
Expired == [ok |-> FALSE, err |-> "TokenExpiredError", email |-> ""]

Malformed == [ok |-> FALSE, err |-> "JsonWebTokenError", email |-> ""]

\* the 15 minutes or 7 days a token of the server was issued for are over at t
Elapsed(tok, t) ==
  \/ IsAccessToken(tok) /\ t >= tok.iat + AccessTTL
  \/ IsRefreshToken(tok) /\ t >= tok.iat + RefreshTTL

\* C12: the verification of a token of the server, from the second in which
\* its 15 minutes or 7 days are over, fails with TokenExpiredError (Expired)
\* and not with JsonWebTokenError (Malformed): so for every token the clients
\* hold, at the present time, and for the token of every refresh request,
\* which is then answered 403 without an access token
C12_ExpiredIsExpired ==
  /\ \A tok \in Held :
       Elapsed(tok, now) => Verify(tok, JWT_SECRET, now) = Expired
  /\ (resp.op = "refresh" /\ Elapsed(resp.reqToken, resp.at)) =>
       /\ Verify(resp.reqToken, JWT_SECRET, resp.at) = Expired
       /\ resp.status = 403
       /\ resp.accessToken = NoToken

\* the refresh token of a login is refused in the second of its expiry
C12_Witness ==
  /\ resp.op = "refresh" /\ resp.status = 403
  /\ IsRefreshToken(resp.reqToken)
  /\ resp.at = resp.reqToken.iat + RefreshTTL
  /\ Verify(resp.reqToken, JWT_SECRET, resp.at).err = "TokenExpiredError"

\* a token signed with the secret that is not the server's
ForeignSigned(tok) ==
  tok.fmt = "jwt" /\ tok.sig = MAC(tok.email, tok.iat, tok.exp, OtherSecret)

\* C13: a token signed with another secret fails verification with
\* JsonWebTokenError (Malformed) at the time of every request that presents
\* it, before and after the expiry it carries; the refresh handler answers
\* 403 without an access token, the middleware answers 403 and the
\* dashboard handler does not run
C13_ForeignSignedIsMalformed ==
  (resp.op \in {"refresh", "dashboard"} /\ ForeignSigned(resp.reqToken)) =>
    /\ Verify(resp.reqToken, JWT_SECRET, resp.at) = Malformed
    /\ resp.status = 403
    /\ resp.accessToken = NoToken
    /\ ~HandlerRan /\ resp.user = ""

\* a token signed with another secret is refused after the expiry it
\* carries, while the browser holds a valid cookie of the same identity
C13_Witness ==
  /\ resp.op = "refresh" /\ resp.status = 403
  /\ ForeignSigned(resp.reqToken)
  /\ resp.at >= resp.reqToken.exp
  /\ jar.has /\ Valid(jar.value, now) /\ jar.value.email = resp.reqToken.email

\* C14: a process whose environment has no JWT_SECRET never listens
C14_NoSecretNeverListens ==
  ("JWT_SECRET" \notin env) => (proc # "listening")

\* C15: a refresh request is answered with an access token only if the token
\* of its refreshToken cookie is a refresh token, issued by a login for 7
\* days; an access token in the cookie mints nothing
C15_OnlyRefreshTokensMint ==
  (resp.op = "refresh" /\ resp.accessToken # NoToken) =>
     IsRefreshToken(resp.reqToken)

\* C16: a delete request that finds no document of its id is answered 404
\* "User not found" and the store, the directory and the requests under way
\* stay as they are; a failure of getUserByEmail or deleteUser sends no
\* response and changes nothing, and the request goes on to the deletion of
\* the document; that deletion, when it succeeds, removes the document of the
\* id and is answered with success
C16_DeleteOutcomes ==
  [][/\ \A id \in Emails :
          (DeleteGet(id, TRUE) /\ DocById(users, id) = {}) =>
             /\ resp' = Response("delete", id, 404, "User not found", now)
             /\ users' = users /\ authDir' = authDir
             /\ inflight' = inflight
     /\ \A r \in BagToSet(inflight) :
          /\ DeleteAuth(r, FALSE) =>
               /\ resp' = resp
               /\ users' = users /\ authDir' = authDir
               /\ BagIn([r EXCEPT !.pc = "doc"], inflight')
          /\ DeleteDocStep(r, TRUE) =>
               /\ resp' = Response("delete", r.email, 200, "success", now)
               /\ DocById(users', r.email) = {}
               /\ authDir' = authDir]_vars

\* a deletion is answered with success and the document is gone, while the
\* principal of the identity is still in the directory
C16_Witness ==
  /\ resp.op = "delete" /\ resp.status = 200
  /\ DocById(users, resp.email) = {}
  /\ \E p \in authDir : p.email = resp.email
  /\ inflight = EmptyBag

\* the directory holds a principal of the identity
HasPrincipal(dir, email) == \E p \in dir : p.email = email

\* C17: the directory entry of an identity is deleted after its document:
\* a step that removes the principal of an identity from the directory
\* leaves a store without a document of that identity, so that a request
\* that leaves the document in place, as one answered 500 "Delete failed"
\* does, has not removed the principal
C17_DirectoryAfterDocument ==
  [][\A e \in Emails :
       (HasPrincipal(authDir, e) /\ ~HasPrincipal(authDir', e)) =>
          DocById(users', e) = {}]_vars

\* a step that answers a request with 500 and the message of its handler,
\* and does nothing else: the store, the directory, the jar and the session
\* stay as they are, no request is suspended, and the server still listens
FailsWith(op, email, msg) ==
  /\ resp' = Response(op, email, 500, msg, now)
  /\ resp'.accessToken = NoToken /\ resp'.setCookie = NoSetCookie
  /\ users' = users /\ authDir' = authDir
  /\ jar' = jar /\ phase' = phase
  /\ BagCardinality(inflight') <= BagCardinality(inflight)
  /\ proc' = "listening"

\* C18: a step of the register, login or stats handler in which the call
\* to the store, to bcrypt or to the directory fails answers 500 with the
\* message of the handler, without a token and without a cookie, and changes
\* nothing else; the server goes on listening
C18_CollaboratorFailures ==
  [][/\ \A e \in Emails, p \in Passwords :
          /\ RegisterQuery(e, p, FALSE) =>
               FailsWith("register", e, "Register failed")
          /\ LoginQuery(e, p, FALSE) =>
               FailsWith("login", e, "Login failed")
     /\ \A r \in BagToSet(inflight) :
          /\ (\E salt \in Salts : RegisterSet(r, salt, FALSE)) =>
               FailsWith("register", r.email, "Register failed")
          /\ LoginCompare(r, FALSE) =>
               FailsWith("login", r.email, "Login failed")
          /\ StatsList(r, FALSE) =>
               FailsWith("stats", "", "Failed to fetch stats")]_vars

\* a registration fails and leaves no record, while the browser keeps the
\* session of an earlier login
C18_Witness ==
  /\ resp.op = "register" /\ resp.status = 500
  /\ QueryByEmail(users, resp.email) = {}
  /\ jar.has /\ Valid(jar.value, now)
  /\ phase = "Authenticated"
  /\ proc = "listening"

\* what the store and the directory hold of an identity
OwnData(store, dir, email) ==
  <<{d \in store : d.email = email \/ d.id = email},
    {p \in dir : p.email = email}>>

\* the step resumes the suspended request r
Resumed(r) == CopiesIn(r, inflight') < CopiesIn(r, inflight)

\* C19: in every interleaving of the requests of different identities: a
\* step changes what the store and the directory hold of an identity only
\* by resuming a request of that identity, and resumes one request; a
\* register, login or delete request of an identity is answered at its
\* first await ("User exists", "Invalid credentials", "User not found") or
\* goes on according to whether the store holds a record of that identity,
\* whatever it holds of the others, and goes on with the data of that record;
\* and no step of a request changes the outcome of the verification of a
\* token that a client holds
C19_NoInterferenceAcrossIdentities ==
  [][/\ \A e \in Emails :
          /\ (OwnData(users', authDir', e) # OwnData(users, authDir, e)) =>
               \E r \in BagToSet(inflight) :
                  /\ r.email = e /\ Resumed(r)
                  /\ \A r2 \in BagToSet(inflight) \ {r} : ~Resumed(r2)
          /\ \A p \in Passwords :
               /\ RegisterQuery(e, p, TRUE) =>
                    ((inflight' = inflight) <=>
                       ({d \in users : d.email = e} # {}))
               /\ LoginQuery(e, p, TRUE) =>
                    /\ (inflight' = inflight) <=>
                          ({d \in users : d.email = e} = {})
                    /\ \A r \in BagToSet(inflight') :
                          Resumed(r) \/ r.email # e \/
                          \E d \in users : d.email = e /\ d.password = r.hash
          /\ DeleteGet(e, TRUE) =>
               /\ (inflight' = inflight) <=>
                     ({d \in users : d.email = e} = {})
               /\ \A r \in BagToSet(inflight') :
                     r.email = e => r.dataEmail = e
     /\ \A tok \in Held :
          Verify(tok, JWT_SECRET, now)' = Verify(tok, JWT_SECRET, now)]_vars

\* a registration of one identity is answered while a deletion of the
\* other, whose cookie the browser holds, is suspended at an await
C19_Witness ==
  /\ resp.op = "register" /\ resp.status = 200 /\ resp.email = "a@x.com"
  /\ \E r \in BagToSet(inflight) :
        r.op = "delete" /\ r.pc = "doc" /\ r.email = "b@x.com"
  /\ jar.has /\ jar.value.email = "b@x.com"
  /\ OwnData(users, authDir, "b@x.com")[1] # {}

\* C20: a call of listUsers that returns to the stats handler either gives
\* a cursor, and then the loop goes on with a cursor that is further in the
\* directory, having counted exactly the principals up to it, or gives none,
\* and then the handler answers 200 with totalUsers the number of principals
\* of the directory, verifiedUsers the number of the verified ones, and
\* unverifiedUsers their difference, which is not negative
C20_StatsPagination ==
  [][\A r \in BagToSet(inflight) :
       StatsList(r, TRUE) =>
         IF inflight' = inflight (-) SetToBag({r})
           THEN /\ resp'.op = "stats" /\ resp'.status = 200
                /\ resp'.stats.totalUsers = Cardinality(authDir)
                /\ resp'.stats.verifiedUsers =
                     Cardinality({p \in authDir : p.emailVerified})
                /\ resp'.stats.unverifiedUsers =
                     resp'.stats.totalUsers - resp'.stats.verifiedUsers
                /\ resp'.stats.unverifiedUsers >= 0
         ELSE \E r2 \in BagToSet(inflight') :
                /\ inflight' = (inflight (-) SetToBag({r})) (+) SetToBag({r2})
                /\ r2.nextPageToken > r.nextPageToken
                /\ r2.total =
                     Cardinality({p \in authDir : p.uid <= r2.nextPageToken})
                /\ r2.verified =
                     Cardinality({p \in authDir : p.uid <= r2.nextPageToken
                                                    /\ p.emailVerified})
                /\ resp' = resp]_vars

\* the response counts a directory of more than one page, with verified and
\* unverified principals, while another request is in its loop
C20_Witness ==
  /\ resp.op = "stats" /\ resp.status = 200
  /\ resp.stats.totalUsers = MaxPrincipals
  /\ resp.stats.totalUsers > PageSize
  /\ resp.stats.verifiedUsers > 0 /\ resp.stats.unverifiedUsers > 0
  /\ \E r \in BagToSet(inflight) : r.nextPageToken # NoPageToken

====
